---- MODULE Spec2Model ----
(***************************************************************************)
(* Verification model of the Tool Analysis Engine of nextjs-tool-integrator *)
(* (src/src/utils/stagehand-integration.ts): the StagehandAutomation       *)
(* capability adapter, the code example extractor, the dependency detector *)
(* and the analyzeToolUrl orchestrator; and of the action of the main      *)
(* command (src/src/index.ts) with bootstrapNextApp and                    *)
(* integrateExternalTool.                                                  *)
(*                                                                         *)
(* Strings that the code inspects (link texts, hrefs, import paths) are    *)
(* sequences of one-character strings.  Error messages are sequences of    *)
(* message segments: the head is the outermost wrapper, the tail the       *)
(* cause, as in `Navigation failed: ${error.message}`.                     *)
(***************************************************************************)
EXTENDS Integers, Sequences, FiniteSets, TLC

VARIABLES
    stagehand,      \* module-level `stagehand` reference (lines 4-11)
    config,         \* StagehandAutomation.config (line 59)
    browser,        \* StagehandAutomation.browser (line 60)
    initOk,         \* ghost: some initialize() call on this adapter has returned normally
    closedAfterInit,\* ghost: close() has been called since the last successful initialize()
    closeCalls,     \* ghost: number of StagehandAutomation.close() calls on this adapter
    closeVerbCalls, \* ghost: the backend's closing verbs invoked on the handle now in this.browser
    verbLog,        \* ghost: backend calls made during analyzeToolUrl, in order
    last,           \* ghost: the adapter operation that ran last, with its outcome
    nOps,           \* ghost: number of adapter operations a direct client has called
    pc,             \* analyzeToolUrl: position of the analysis
    toolInfo,       \* analyzeToolUrl: local toolInfo
    pageStructure,  \* analyzeToolUrl: local pageStructure
    codeExamples,   \* analyzeToolUrl: local codeExamples
    dependencies,   \* analyzeToolUrl: local dependencies
    docLinks,       \* analyzeToolUrl: local docLinks
    linkIdx,        \* analyzeToolUrl: position of the for-of loop over docLinks
    pending,        \* analyzeToolUrl: the completion the finally block will deliver
    outcome,        \* what the caller of analyzeToolUrl has received
    opLog,          \* ghost: adapter operations called by analyzeToolUrl, in order
    primary,        \* ghost: codeExamples and dependencies after the primary page
    blocks,         \* ghost: the code blocks `markup` was written from
    modulePath,     \* ghost: the module path the one import statement in `markup` names
    markup,         \* extractCodeExamplesFromHtml: its argument
    extracted,      \* extractCodeExamplesFromHtml: the array it returned
    detected,       \* detectDependenciesFromCode: the array it returned for `extracted`
    step,           \* position of a run of the extractor and the detector on `markup`
    files,          \* CLI: names of the entries of process.cwd() before the run
    packageJson,    \* CLI: what package.json of process.cwd() holds
    force,          \* CLI: options.force
    cliUrl,         \* CLI: the <url> argument
    cliPc,          \* CLI: position of the action of the main command
    cliLog,         \* ghost: functions the CLI action has called, in order
    created,        \* ghost: directories bootstrapNextApp has created an app in
    written,        \* ghost: directories createIntegration has written integration files to
    installed,      \* ghost: packages installDependencies has installed
    exitCode,       \* CLI: exit status of the process, -1 while it runs
    other,          \* a second analyzeToolUrl call, suspended at an await: its adapter and locals
    running         \* which of two concurrent analyzeToolUrl calls is running, 0 for a single call

adapterVars == <<config, browser, initOk, closedAfterInit, closeCalls, closeVerbCalls, last>>
analysisVars == <<pc, toolInfo, pageStructure, codeExamples, dependencies, docLinks,
                  linkIdx, pending, outcome, opLog, verbLog, primary>>
pipelineVars == <<blocks, modulePath, markup, extracted, detected, step>>
cliVars == <<files, packageJson, force, cliUrl, cliPc, cliLog, created, written, installed,
             exitCode>>
vars == <<stagehand, config, browser, initOk, closedAfterInit, closeCalls, closeVerbCalls, verbLog,
          last, nOps,
          pc, toolInfo, pageStructure, codeExamples, dependencies, docLinks,
          linkIdx, pending, outcome, opLog, primary,
          blocks, modulePath, markup, extracted, detected, step,
          files, packageJson, force, cliUrl, cliPc, cliLog, created, written, installed,
          exitCode, other, running>>

----------------------------------------------------------------------------
(* Bounds of the model *)

MaxLinks == 2       \* longest list of links the backend's observe verb reports
MaxOps == 3         \* adapter operations a direct client calls
MaxBody == 3        \* atoms in the body of a code block made of entity pieces
MaxBlocks == 2      \* code blocks in one markup
MaxPathLen == 6     \* characters of a module path

----------------------------------------------------------------------------
(* Generic helpers on character sequences *)

RECURSIVE SeqToSet(_)
SeqToSet(s) == IF s = <<>> THEN {} ELSE {Head(s)} \cup SeqToSet(Tail(s))

StartsWith(s, p) == Len(s) >= Len(p) /\ SubSeq(s, 1, Len(p)) = p

Includes(s, sub) ==
    \E i \in 1..(Len(s) - Len(sub) + 1) : SubSeq(s, i, i + Len(sub) - 1) = sub

LowerOf(c) ==
    CASE c = "A" -> "a" [] c = "D" -> "d" [] c = "G" -> "g" [] c = "H" -> "h"
      [] c = "I" -> "i" [] c = "P" -> "p" [] c = "Q" -> "q" [] c = "S" -> "s"
      [] OTHER -> c

toLowerCase(s) == [i \in 1..Len(s) |-> LowerOf(s[i])]

----------------------------------------------------------------------------
(* Error messages *)

BackendError == <<"backend error">>
E_NoLibrary == <<"Stagehand library is not available">>
E_NotInitialized == <<"Browser not initialized. Call initialize() first.">>
E_NoNavMethod == <<"No compatible navigation method found in Stagehand browser">>
E_NotAFunction == <<"this.browser.launch is not a function">>

Wrap(prefix, cause) == <<prefix>> \o cause

----------------------------------------------------------------------------
(* The backend: the stagehand module and the session objects it hands out *)

NavVerbs == {"goto", "navigate", "act"}
CloseVerbs == {"close", "exit", "quit"}

\* Shapes of the module reference: not loaded (null), or loaded and exposing
\* any subset of {launch, Browser}.
NoStagehand == [loaded |-> FALSE, launch |-> FALSE, Browser |-> FALSE]
StagehandShapes ==
    {NoStagehand} \cup [loaded : {TRUE}, launch : BOOLEAN, Browser : BOOLEAN]

\* Verb sets a session object may expose.
NavShapes == {{}, {"goto"}, {"navigate"}, {"act"}, {"navigate", "act"}, {"goto", "navigate", "act"}}
DataShapes == {{}, {"evaluate"}, {"extract", "observe"}, {"extract", "observe", "evaluate"}}
CloseShapes == {{}, {"close"}, {"exit"}, {"quit"}, {"exit", "quit"}, {"close", "exit", "quit"}}
SessionShapes == {n \cup d \cup c : n \in NavShapes, d \in DataShapes, c \in CloseShapes}
BrowserShapes == SessionShapes \cup {s \cup {"launch"} : s \in SessionShapes}

\* this.browser = null
NoBrowser == [bound |-> FALSE, session |-> {}, mock |-> {}]
Bound(session, mock) == [bound |-> TRUE, session |-> session, mock |-> mock]

\* typeof this.browser.v === 'function'
Has(b, v) == v \in b.session \cup b.mock
\* the function stored under v is one that initialize() wrote
IsMock(b, v) == v \in b.mock

VerbCall(b, v, arg, raised) == [verb |-> v, arg |-> arg, mock |-> IsMock(b, v), raised |-> raised]
\* A verb of the backend may raise; the functions initialize() installs do not.
MayRaise(b, v) == IF IsMock(b, v) THEN {FALSE} ELSE BOOLEAN

----------------------------------------------------------------------------
(* Outcome of one adapter operation *)

\* A JavaScript value as far as the code looks at it: its typeof, the keys of
\* a mapping, the list under `links`, the markup of a string.
Obj(keys, links) == [type |-> "object", keys |-> keys, links |-> links, html |-> <<>>]
Str(html) == [type |-> "string", keys |-> {}, links |-> <<>>, html |-> html]
Void == [type |-> "undefined", keys |-> {}, links |-> <<>>, html |-> <<>>]

\* browser: this.browser afterwards; verbs: the backend calls the operation
\* made; assigned: the operation stored a new handle in this.browser.
Ok(b, value, verbs) ==
    [browser |-> b, ok |-> TRUE, value |-> value, error |-> <<>>, verbs |-> verbs,
     assigned |-> FALSE]
Err(b, error, verbs) ==
    [browser |-> b, ok |-> FALSE, value |-> Void, error |-> error, verbs |-> verbs,
     assigned |-> FALSE]
Assigned(o) == [o EXCEPT !.assigned = TRUE]

----------------------------------------------------------------------------
(* Links of a page *)



\* A link whose text or href is null is the link with the empty sequence
\* there: the code reads both through String(x || '').
Link(text, href) == [text |-> text, href |-> href]

\* "Home" -> /, "Docs" -> /docs, "Quick Start" -> /quick,
\* "Getting started" -> /start, and a link without text -> /docs/api
Links == {Link(<<"H", "o", "m", "e">>, <<"/">>),
          Link(<<"D", "o", "c", "s">>, <<"/", "d", "o", "c", "s">>),
          Link(<<"Q", "u", "i", "c", "k", " ", "S", "t", "a", "r", "t">>,
               <<"/", "q", "u", "i", "c", "k">>),
          Link(<<"G", "e", "t", "t", "i", "n", "g", " ", "s", "t", "a", "r", "t", "e", "d">>,
               <<"/", "s", "t", "a", "r", "t">>),
          Link(<<>>, <<"/", "d", "o", "c", "s", "/", "a", "p", "i">>)}

\* Lists of up to MaxLinks different links.
LinkLists == {l \in UNION {[1..n -> Links] : n \in 0..MaxLinks} :
                 \A i, j \in 1..Len(l) : i # j => l[i] # l[j]}

\* links and buttons of the observe function that initialize() installs
\* (lines 114-123) and of the placeholder of observePage (lines 252-261)
\* "Documentation" -> #docs, "API" -> #api
MockLinks == <<Link(<<"D", "o", "c", "u", "m", "e", "n", "t", "a", "t", "i", "o", "n">>,
                    <<"#", "d", "o", "c", "s">>),
               Link(<<"A", "P", "I">>, <<"#", "a", "p", "i">>)>>

----------------------------------------------------------------------------
(* What the verbs of the backend return *)

\* The input of the analysis.  The code never looks inside it.
InputUrl == <<"https://tool.example/">>

ExtractInstruction == <<"Extract information about this tool including: name, description, purpose, API endpoints if visible, and authentication requirements">>
ObserveInstruction == <<"Analyze the page structure and identify main UI components, navigation elements, and interactive features">>
Fn_outerHTML == <<"() => document.documentElement.outerHTML">>
Fn_extract == <<"() => ({ title, description, headings })">>
Fn_observe == <<"() => ({ links, buttons })">>

----------------------------------------------------------------------------
(* Page markup and the Code Example Extractor *)

\* Markup is a sequence of lexical tokens: the tags the code block pattern
\* knows, and atoms of text.  An atom is a piece of text no pattern of the
\* code splits: a keyword, a run of blanks, a quote, one character of a module
\* path, the "&" and the tail of an HTML entity.
Pre(class) == [t |-> "pre", class |-> class, s |-> "<pre>"]       \* <pre> or <pre class="..">
Code(class) == [t |-> "code", class |-> class, s |-> "<code>"]    \* <code> or <code class="..">
EndCode == [t |-> "/code", class |-> <<>>, s |-> "</code>"]
EndPre == [t |-> "/pre", class |-> <<>>, s |-> "</pre>"]
Tx(atom) == [t |-> "text", class |-> <<>>, s |-> atom]

Text(atoms) == [i \in 1..Len(atoms) |-> Tx(atoms[i])]

WordChars == {"a", "b", "c", "d", "e", "f", "g", "h", "i", "j", "k", "l", "m", "n", "o",
              "p", "q", "r", "s", "t", "u", "v", "w", "x", "y", "z", "S", "T", "X"}

\* First index j >= i of s with s[j] outside the set cs, Len(s)+1 if none.
RECURSIVE SkipWhile(_, _, _)
SkipWhile(s, i, cs) ==
    IF i <= Len(s) /\ s[i] \in cs THEN SkipWhile(s, i + 1, cs) ELSE i

\* First index j >= i of s with s[j] in the set cs, Len(s)+1 if none.
RECURSIVE FindFirst(_, _, _)
FindFirst(s, i, cs) ==
    IF i <= Len(s) /\ s[i] \notin cs THEN FindFirst(s, i + 1, cs) ELSE i

LitAt(s, i, lit) == i + Len(lit) - 1 <= Len(s) /\ SubSeq(s, i, i + Len(lit) - 1) = lit

L_language == <<"l", "a", "n", "g", "u", "a", "g", "e", "-">>
L_lang == <<"l", "a", "n", "g", "-">>
L_code == <<"-", "c", "o", "d", "e">>
L_javascript == <<"j", "a", "v", "a", "s", "c", "r", "i", "p", "t">>

\* classToCheck.match(/language-(\w+)|lang-(\w+)|(\w+)-code/) at offset i:
\* the captured word, <<>> when no alternative matches there (line 350).
LangAt(c, i) ==
    LET w1 == SkipWhile(c, i + Len(L_language), WordChars)
        w2 == SkipWhile(c, i + Len(L_lang), WordChars)
        w3 == SkipWhile(c, i, WordChars)
    IN  IF LitAt(c, i, L_language) /\ w1 > i + Len(L_language)
          THEN SubSeq(c, i + Len(L_language), w1 - 1)
        ELSE IF LitAt(c, i, L_lang) /\ w2 > i + Len(L_lang)
          THEN SubSeq(c, i + Len(L_lang), w2 - 1)
        ELSE IF w3 > i /\ LitAt(c, w3, L_code)
          THEN SubSeq(c, i, w3 - 1)
        ELSE <<>>

RECURSIVE LangFrom(_, _)
LangFrom(c, i) ==
    IF i > Len(c) THEN <<>>
    ELSE IF LangAt(c, i) # <<>> THEN LangAt(c, i)
    ELSE LangFrom(c, i + 1)

\* lines 346-354
languageOf(preClass, codeClass) ==
    LET classToCheck == IF codeClass # <<>> THEN codeClass ELSE preClass
        langMatch == LangFrom(classToCheck, 1)
    IN  IF langMatch # <<>> THEN langMatch ELSE L_javascript

\* String.prototype.replace(/pat/g, rep) on atoms: left to right, the
\* replacement is not scanned again.
RECURSIVE ReplaceAll(_, _, _)
ReplaceAll(s, pat, rep) ==
    IF Len(s) < Len(pat) THEN s
    ELSE IF SubSeq(s, 1, Len(pat)) = pat
      THEN rep \o ReplaceAll(SubSeq(s, Len(pat) + 1, Len(s)), pat, rep)
    ELSE <<Head(s)>> \o ReplaceAll(Tail(s), pat, rep)

Blank == {" ", "\n"}

RECURSIVE TrimEnd(_)
TrimEnd(s) == IF s # <<>> /\ s[Len(s)] \in Blank THEN TrimEnd(SubSeq(s, 1, Len(s) - 1)) ELSE s

trim(s) == LET i == SkipWhile(s, 1, Blank) IN TrimEnd(SubSeq(s, i, Len(s)))

\* lines 357-363
cleanCode(code) ==
    trim(ReplaceAll(ReplaceAll(ReplaceAll(ReplaceAll(ReplaceAll(code,
        <<"&", "lt;">>, <<"<">>),
        <<"&", "gt;">>, <<">">>),
        <<"&", "amp;">>, <<"&">>),
        <<"&", "quot;">>, <<"\"">>),
        <<"&", "#39;">>, <<"'">>))

\* Mutant: the group ([\s\S]*) is greedy and runs to the last </pre>.
BodyEnd_Greedy(html, j) ==
    LET ends == {k \in j..Len(html) : html[k].t = "/pre"}
    IN  IF ends = {} THEN 0 ELSE CHOOSE k \in ends : \A m \in ends : m <= k

\* End of the lazy group ([\s\S]*?) of the pattern started before index i:
\* the first j >= i where (?:<\/code>)?<\/pre> matches, 0 if there is none.
RECURSIVE BodyEnd(_, _)
BodyEnd(html, j) ==
    IF j > Len(html) THEN 0
    ELSE IF html[j].t = "/pre" THEN j
    ELSE IF html[j].t = "/code" /\ j < Len(html) /\ html[j + 1].t = "/pre" THEN j
    ELSE BodyEnd(html, j + 1)

\* codeBlockRegex.exec from index i on (lines 337-369)
RECURSIVE ExamplesFrom(_, _)
ExamplesFrom(html, i) ==
    IF i > Len(html) THEN <<>>
    ELSE IF html[i].t # "pre" THEN ExamplesFrom(html, i + 1)
    ELSE LET hasCode == i < Len(html) /\ html[i + 1].t = "code"
             from == IF hasCode THEN i + 2 ELSE i + 1
             j == BodyEnd(html, from)
             endTok == IF html[j].t = "/pre" THEN j ELSE j + 1
             preClass == html[i].class
             codeClass == IF hasCode THEN html[i + 1].class ELSE <<>>
             code == [k \in 1..(j - from) |-> html[from + k - 1].s]
         IN  IF j = 0 THEN <<>>
             ELSE <<[language |-> languageOf(preClass, codeClass),
                     code |-> cleanCode(code)]>> \o ExamplesFrom(html, endTok + 1)

extractCodeExamplesFromHtml(html) == ExamplesFrom(html, 1)

----------------------------------------------------------------------------
(* The Dependency Detector *)

\* importPath.split('/')
RECURSIVE Split(_, _)
Split(s, sep) ==
    LET j == FindFirst(s, 1, {sep})
    IN  IF j > Len(s) THEN <<s>>
        ELSE <<SubSeq(s, 1, j - 1)>> \o Split(SubSeq(s, j + 1, Len(s)), sep)

RECURSIVE Join(_, _)
Join(parts, sep) ==
    IF parts = <<>> THEN <<>>
    ELSE IF Len(parts) = 1 THEN parts[1]
    ELSE parts[1] \o <<sep>> \o Join(Tail(parts), sep)

\* parts.slice(0, n)
Slice0(parts, n) == SubSeq(parts, 1, IF Len(parts) < n THEN Len(parts) ELSE n)

\* Mutant: a scoped path is returned whole.
extractPackageName_KeepsSubpath(importPath) ==
    IF StartsWith(importPath, <<".">>) \/ StartsWith(importPath, <<"/">>) THEN <<>>
    ELSE IF Includes(importPath, <<"/">>)
      THEN IF StartsWith(importPath, <<"@">>)
             THEN importPath
             ELSE SubSeq(importPath, 1, FindFirst(importPath, 1, {"/"}) - 1)
    ELSE importPath

\* lines 417-436.  null is the empty sequence: the caller adds the result
\* only when it is truthy, and neither null nor '' is.
extractPackageName(importPath) ==
    IF StartsWith(importPath, <<".">>) \/ StartsWith(importPath, <<"/">>) THEN <<>>
    ELSE IF Includes(importPath, <<"/">>)
      THEN IF StartsWith(importPath, <<"@">>)
             THEN Join(Slice0(Split(importPath, "/"), 2), "/")
             ELSE Split(importPath, "/")[1]
    ELSE importPath

Quotes == {"'", "\""}
WordAtoms == WordChars \cup {"import", "from", "const", "let", "var", "require", "as"}

\* (?:\{[^}]*\}|\w+) starting at index b: the index after it, 0 if it does not match
BindingEnd(s, b) ==
    IF b > Len(s) THEN 0
    ELSE IF s[b] = "{"
      THEN LET e == FindFirst(s, b + 1, {"}"}) IN IF e > Len(s) THEN 0 ELSE e + 1
    ELSE IF s[b] \in WordAtoms THEN SkipWhile(s, b, WordAtoms)
    ELSE 0

\* (?:\{[^}]*\}|\*\s+as\s+\w+|\w+) starting at index b
ClauseEnd(s, b) ==
    IF b <= Len(s) /\ s[b] = "*"
      THEN LET a == SkipWhile(s, b + 1, Blank)
               w == SkipWhile(s, a + 1, Blank)
               e == SkipWhile(s, w, WordAtoms)
           IN  IF a > b + 1 /\ a <= Len(s) /\ s[a] = "as" /\ w > a + 1 /\ e > w
                 THEN e ELSE 0
    ELSE BindingEnd(s, b)

\* ['"]([^'"]+)['"] starting at index q: the captured path and the index
\* after the closing quote; end = 0 if it does not match
QuotedAt(s, q) ==
    LET e == FindFirst(s, q + 1, Quotes)
    IN  IF q <= Len(s) /\ s[q] \in Quotes /\ e <= Len(s) /\ e > q + 1
          THEN [path |-> SubSeq(s, q + 1, e - 1), end |-> e + 1]
          ELSE [path |-> <<>>, end |-> 0]

\* importRegex (line 383) at index i
ImportAt(s, i) ==
    LET b == SkipWhile(s, i + 1, Blank)
        c == ClauseEnd(s, b)
        f == SkipWhile(s, c, Blank)
        q == SkipWhile(s, f + 1, Blank)
        withClause == c # 0 /\ f > c /\ f <= Len(s) /\ s[f] = "from" /\ q > f + 1
    IN  IF s[i] = "import" /\ b > i + 1
          THEN IF withClause /\ QuotedAt(s, q).end # 0 THEN QuotedAt(s, q)
               ELSE QuotedAt(s, b)
          ELSE [path |-> <<>>, end |-> 0]

\* requireRegex (line 384) at index i
RequireAt(s, i) ==
    LET b == SkipWhile(s, i + 1, Blank)
        c == BindingEnd(s, b)
        e == SkipWhile(s, c, Blank)
        r == SkipWhile(s, e + 1, Blank)
        m == QuotedAt(s, r + 2)
    IN  IF /\ s[i] \in {"const", "let", "var"} /\ b > i + 1
           /\ c # 0 /\ e > c /\ e <= Len(s) /\ s[e] = "=" /\ r > e + 1
           /\ r + 1 <= Len(s) /\ s[r] = "require" /\ s[r + 1] = "("
           /\ m.end # 0 /\ m.end <= Len(s) /\ s[m.end] = ")"
          THEN [path |-> m.path, end |-> m.end + 1]
          ELSE [path |-> <<>>, end |-> 0]

\* every match of a /g pattern with exec, left to right (lines 392, 400)
RECURSIVE ImportPaths(_, _)
ImportPaths(s, i) ==
    IF i > Len(s) THEN <<>>
    ELSE IF ImportAt(s, i).end # 0
      THEN <<ImportAt(s, i).path>> \o ImportPaths(s, ImportAt(s, i).end)
    ELSE ImportPaths(s, i + 1)

RECURSIVE RequirePaths(_, _)
RequirePaths(s, i) ==
    IF i > Len(s) THEN <<>>
    ELSE IF RequireAt(s, i).end # 0
      THEN <<RequireAt(s, i).path>> \o RequirePaths(s, RequireAt(s, i).end)
    ELSE RequirePaths(s, i + 1)

\* Set.prototype.add over a sequence of paths: insertion order, no duplicate
RECURSIVE AddAll(_, _)
AddAll(deps, names) ==
    IF names = <<>> THEN deps
    ELSE IF Head(names) = <<>> \/ Head(names) \in SeqToSet(deps)
      THEN AddAll(deps, Tail(names))
    ELSE AddAll(Append(deps, Head(names)), Tail(names))

PackageNames(paths) == [i \in 1..Len(paths) |-> extractPackageName(paths[i])]

\* Mutant: python examples are scanned as well.
JsFamily_WithPython ==
    {L_javascript, <<"t", "y", "p", "e", "s", "c", "r", "i", "p", "t">>,
     <<"j", "s", "x">>, <<"t", "s", "x">>, <<"p", "y", "t", "h", "o", "n">>}

\* line 387: javascript, typescript, jsx, tsx
JsFamily == {L_javascript, <<"t", "y", "p", "e", "s", "c", "r", "i", "p", "t">>,
             <<"j", "s", "x">>, <<"t", "s", "x">>}

\* lines 386-407
RECURSIVE DetectFrom(_, _)
DetectFrom(deps, examples) ==
    IF examples = <<>> THEN deps
    ELSE LET example == Head(examples)
             code == example.code
         IN  IF example.language \in JsFamily
               THEN DetectFrom(AddAll(AddAll(deps, PackageNames(ImportPaths(code, 1))),
                                      PackageNames(RequirePaths(code, 1))),
                               Tail(examples))
               ELSE DetectFrom(deps, Tail(examples))

\* lines 379-410
detectDependenciesFromCode(examples) == DetectFrom(<<>>, examples)

----------------------------------------------------------------------------
(* Pages the backend may serve *)

\* a block tagged lang-tsx: import x from 'a/b' ; import './c' ; import 'a',
\* then an untagged block: import 'a'
M_Tsx == <<Pre(<<>>), Code(L_lang \o <<"t", "s", "x">>)>>
         \o Text(<<"import", " ", "x", " ", "from", " ", "'", "a", "/", "b", "'", "\n",
                   "import", " ", "'", ".", "/", "c", "'", "\n",
                   "import", " ", "'", "a", "'">>)
         \o <<EndCode, EndPre, Tx("\n"), Pre(<<>>)>>
         \o Text(<<"import", " ", "'", "a", "'">>)
         \o <<EndPre>>
\* a block tagged language-python importing p, then an untagged block:
\* const y = require("@a/b/c") ; import 'a'
M_Mixed == <<Pre(L_language \o <<"p", "y", "t", "h", "o", "n">>)>>
           \o Text(<<"import", " ", "'", "p", "'">>)
           \o <<EndPre, Tx("\n"), Pre(<<>>), Code(<<>>)>>
           \o Text(<<"const", " ", "y", " ", "=", " ", "require", "(", "\"", "@", "a",
                     "/", "b", "/", "c", "\"", ")", "\n", "import", " ", "'", "a", "'">>)
           \o <<EndCode, EndPre>>

Markups == {M_Tsx, M_Mixed}

----------------------------------------------------------------------------
(* Values the verbs return *)

\* lines 106-110
MockExtractInfo == Obj({"name", "description", "purpose"}, <<>>)
\* lines 114-123
MockObservation == Obj({"links", "buttons"}, MockLinks)
\* line 134: the evaluate of the built-in session ignores its argument
BuiltinEvaluation == Obj({"mockData"}, <<>>)
\* lines 200-207
PlaceholderExtract == Obj({"message", "mockData"}, <<>>)
\* lines 250-262: links and buttons sit under mockData, not at the top level
PlaceholderObservation == Obj({"message", "mockData"}, <<>>)
\* line 285
PlaceholderEvaluation == Obj({"mockData"}, <<>>)

\* What the backend's own verbs may return.  extract and observe return a
\* mapping of the backend's choosing; evaluate returns what the page function
\* computes, and for outerHTML a backend may also return no string.
NativeExtracts == {Obj({"name", "description"}, <<>>)}
NativeObservations == {Obj({"links", "buttons"}, l) : l \in LinkLists} \cup {Obj({"elements"}, <<>>)}
NativeEvaluations(fn) ==
    IF fn = Fn_outerHTML THEN {Str(m) : m \in Markups} \cup {Void}
    ELSE IF fn = Fn_extract THEN {Obj({"title", "description", "headings"}, <<>>)}
    ELSE {Obj({"links", "buttons"}, l) : l \in LinkLists}

Returns(b, v, natives, mocked) == IF IsMock(b, v) THEN {mocked} ELSE natives

----------------------------------------------------------------------------
(* StagehandAutomation: each operation is the set of its possible outcomes *)

Entry(name, raised) == [verb |-> name, arg |-> <<>>, mock |-> FALSE, raised |-> raised]

\* lines 96-124
InstalledMocks == {"goto", "act", "extract", "observe"}
\* lines 132-136
BuiltinSession == Bound({}, {"goto", "evaluate", "close"})

\* lines 89-125: stagehand.launch() and the navigation check
initializeLaunch(b) ==
    {Err(b, Wrap("Stagehand initialization failed", BackendError),
         <<Entry("stagehand.launch", TRUE)>>)}
    \cup {Assigned(Ok(IF s \cap NavVerbs = {} THEN Bound(s, InstalledMocks) ELSE Bound(s, {}),
                      Void, <<Entry("stagehand.launch", FALSE)>>)) : s \in SessionShapes}

\* lines 126-128: new stagehand.Browser(), then launch() on it
initializeBrowser(b) ==
    {Err(b, Wrap("Stagehand initialization failed", BackendError),
         <<Entry("new stagehand.Browser", TRUE)>>)}
    \cup UNION {
        IF "launch" \notin s
          THEN {Assigned(Err(Bound(s, {}), Wrap("Stagehand initialization failed", E_NotAFunction),
                             <<Entry("new stagehand.Browser", FALSE)>>))}
          ELSE {Assigned(Ok(Bound(s, {}), Void,
                            <<Entry("new stagehand.Browser", FALSE), Entry("launch", FALSE)>>)),
                Assigned(Err(Bound(s, {}), Wrap("Stagehand initialization failed", BackendError),
                             <<Entry("new stagehand.Browser", FALSE), Entry("launch", TRUE)>>))}
        : s \in BrowserShapes}

\* Mutant: the load failure leaves an empty module object instead of null, so
\* the check of line 78 never fires.
initialize_EmptyModule(sh, b) ==
    IF sh.launch THEN initializeLaunch(b)
    ELSE IF sh.Browser THEN initializeBrowser(b)
    ELSE {Assigned(Ok(BuiltinSession, Void, <<>>))}

\* lines 77-142
initialize(sh, b) ==
    IF ~sh.loaded THEN {Err(b, E_NoLibrary, <<>>)}
    ELSE IF sh.launch THEN initializeLaunch(b)
    ELSE IF sh.Browser THEN initializeBrowser(b)
    ELSE {Assigned(Ok(BuiltinSession, Void, <<>>))}

\* One call of verb v: it returns one of `values`, or raises and the
\* operation fails with the wrapped backend error.
Invoke(b, v, arg, values, prefix) ==
    {Ok(b, x, <<VerbCall(b, v, arg, FALSE)>>) : x \in values}
    \cup {Err(b, Wrap(prefix, BackendError), <<VerbCall(b, v, arg, TRUE)>>)
          : r \in MayRaise(b, v) \ {FALSE}}

\* Mutant: a handle without a navigation verb is navigated silently.
navigateTo_SilentWithoutVerb(b, url) ==
    IF ~b.bound THEN {Err(b, E_NotInitialized, <<>>)}
    ELSE IF Has(b, "goto") THEN Invoke(b, "goto", url, {Void}, "Navigation failed")
    ELSE IF Has(b, "navigate") THEN Invoke(b, "navigate", url, {Void}, "Navigation failed")
    ELSE IF Has(b, "act") THEN Invoke(b, "act", <<"Navigate to ">> \o url, {Void}, "Navigation failed")
    ELSE {Ok(b, Void, <<>>)}

\* Mutant: the instruction verb is probed before the go-to-URL verbs.
navigateTo_ActFirst(b, url) ==
    IF ~b.bound THEN {Err(b, E_NotInitialized, <<>>)}
    ELSE IF Has(b, "act") THEN Invoke(b, "act", <<"Navigate to ">> \o url, {Void}, "Navigation failed")
    ELSE IF Has(b, "navigate") THEN Invoke(b, "navigate", url, {Void}, "Navigation failed")
    ELSE IF Has(b, "goto") THEN Invoke(b, "goto", url, {Void}, "Navigation failed")
    ELSE {Err(b, Wrap("Navigation failed", E_NoNavMethod), <<>>)}

\* lines 148-170
navigateTo(b, url) ==
    IF ~b.bound THEN {Err(b, E_NotInitialized, <<>>)}
    ELSE IF Has(b, "goto") THEN Invoke(b, "goto", url, {Void}, "Navigation failed")
    ELSE IF Has(b, "navigate") THEN Invoke(b, "navigate", url, {Void}, "Navigation failed")
    ELSE IF Has(b, "act") THEN Invoke(b, "act", <<"Navigate to ">> \o url, {Void}, "Navigation failed")
    ELSE {Err(b, Wrap("Navigation failed", E_NoNavMethod), <<>>)}

\* Mutant: without extract and evaluate the operation fails.
extractData_NoPlaceholder(b, instruction) ==
    IF ~b.bound THEN {Err(b, E_NotInitialized, <<>>)}
    ELSE IF Has(b, "extract")
      THEN Invoke(b, "extract", instruction, Returns(b, "extract", NativeExtracts, MockExtractInfo),
                  "Data extraction failed")
    ELSE IF Has(b, "evaluate")
      THEN Invoke(b, "evaluate", Fn_extract,
                  Returns(b, "evaluate", NativeEvaluations(Fn_extract), BuiltinEvaluation),
                  "Data extraction failed")
    ELSE {Err(b, Wrap("Data extraction failed", <<"Data extraction not supported">>), <<>>)}

\* lines 177-213
extractData(b, instruction) ==
    IF ~b.bound THEN {Err(b, E_NotInitialized, <<>>)}
    ELSE IF Has(b, "extract")
      THEN Invoke(b, "extract", instruction, Returns(b, "extract", NativeExtracts, MockExtractInfo),
                  "Data extraction failed")
    ELSE IF Has(b, "evaluate")
      THEN Invoke(b, "evaluate", Fn_extract,
                  Returns(b, "evaluate", NativeEvaluations(Fn_extract), BuiltinEvaluation),
                  "Data extraction failed")
    ELSE {Ok(b, PlaceholderExtract, <<>>)}

\* lines 220-267
observePage(b, instruction) ==
    IF ~b.bound THEN {Err(b, E_NotInitialized, <<>>)}
    ELSE IF Has(b, "observe")
      THEN Invoke(b, "observe", instruction,
                  Returns(b, "observe", NativeObservations, MockObservation), "Observation failed")
    ELSE IF Has(b, "evaluate")
      THEN Invoke(b, "evaluate", Fn_observe,
                  Returns(b, "evaluate", NativeEvaluations(Fn_observe), BuiltinEvaluation),
                  "Observation failed")
    ELSE {Ok(b, PlaceholderObservation, <<>>)}

\* lines 274-291
evaluate(b, fn) ==
    IF ~b.bound THEN {Err(b, E_NotInitialized, <<>>)}
    ELSE IF Has(b, "evaluate")
      THEN Invoke(b, "evaluate", fn,
                  Returns(b, "evaluate", NativeEvaluations(fn), BuiltinEvaluation),
                  "Evaluation failed")
    ELSE {Ok(b, PlaceholderEvaluation, <<>>)}

\* Mutant: the error of a closing verb leaves close().
InvokeClose_Rethrows(b, v) ==
    {IF r THEN Err(b, BackendError, <<VerbCall(b, v, <<>>, r)>>)
          ELSE Ok(b, Void, <<VerbCall(b, v, <<>>, r)>>) : r \in MayRaise(b, v)}

\* One call of a closing verb: whether it returns or raises, close() returns
\* normally (lines 311-313).
InvokeClose(b, v) == {Ok(b, Void, <<VerbCall(b, v, <<>>, r)>>) : r \in MayRaise(b, v)}

\* Mutant: the closing verbs are probed in the order quit, exit, close.
close_QuitFirst(b) ==
    IF ~b.bound THEN {Ok(b, Void, <<>>)}
    ELSE IF Has(b, "quit") THEN InvokeClose(b, "quit")
    ELSE IF Has(b, "exit") THEN InvokeClose(b, "exit")
    ELSE IF Has(b, "close") THEN InvokeClose(b, "close")
    ELSE {Ok(b, Void, <<>>)}

\* lines 296-315
close(b) ==
    IF ~b.bound THEN {Ok(b, Void, <<>>)}
    ELSE IF Has(b, "close") THEN InvokeClose(b, "close")
    ELSE IF Has(b, "exit") THEN InvokeClose(b, "exit")
    ELSE IF Has(b, "quit") THEN InvokeClose(b, "quit")
    ELSE {Ok(b, Void, <<>>)}

----------------------------------------------------------------------------
(* State *)

\* lines 66-72: { headless: true, timeout: 30000, ...config }
constructor(options) ==
    [k \in {"headless", "timeout"} \cup DOMAIN options |->
        IF k \in DOMAIN options THEN options[k]
        ELSE IF k = "headless" THEN TRUE ELSE 30000]

NoOp == [op |-> "none", arg |-> <<>>, ok |-> TRUE, value |-> Void, error |-> <<>>,
         verbs |-> <<>>]
OpRecord(op, arg, o) ==
    [op |-> op, arg |-> arg, ok |-> o.ok, value |-> o.value, error |-> o.error,
     verbs |-> o.verbs]

NoProfile == [url |-> <<>>, toolInfo |-> Void, pageStructure |-> Void,
              codeExamples |-> <<>>, dependencies |-> <<>>]
Nothing == [kind |-> "none", profile |-> NoProfile, error |-> <<>>]
Return(profile) == [kind |-> "return", profile |-> profile, error |-> <<>>]
Throw(error) == [kind |-> "throw", profile |-> NoProfile, error |-> error]

\* One StagehandAutomation has been constructed (lines 60, 66-72) with the
\* options { headless: false, userAgent: 'agent' } of the caller (line 444) and
\* analyzeToolUrl(InputUrl) has reached its try block (line 447).
Constructed ==
    /\ config = constructor([headless |-> FALSE, userAgent |-> "agent"])
    /\ browser = NoBrowser
    /\ initOk = FALSE
    /\ closedAfterInit = FALSE
    /\ closeCalls = 0
    /\ closeVerbCalls = 0
    /\ verbLog = <<>>
    /\ last = NoOp
    /\ nOps = 0
    /\ pc = "initialize"
    /\ toolInfo = Void
    /\ pageStructure = Void
    /\ codeExamples = <<>>
    /\ dependencies = <<>>
    /\ docLinks = <<>>
    /\ linkIdx = 0
    /\ pending = Nothing
    /\ outcome = Nothing
    /\ opLog = <<>>
    /\ primary = [codeExamples |-> <<>>, dependencies |-> <<>>]

\* no run of the extractor on a markup of its own
NoPipeline ==
    /\ blocks = <<>>
    /\ modulePath = <<>>
    /\ markup = <<>>
    /\ extracted = <<>>
    /\ detected = <<>>
    /\ step = "idle"

\* no run of the command line
NoCli ==
    /\ files = {}
    /\ packageJson = "absent"
    /\ force = FALSE
    /\ cliUrl = [hostname |-> <<>>, pathParts |-> <<>>]
    /\ cliPc = "idle"
    /\ cliLog = <<>>
    /\ created = {}
    /\ written = {}
    /\ installed = <<>>
    /\ exitCode = -1

\* The module has been loaded (lines 4-11), with or without the library.
Init ==
    /\ stagehand \in StagehandShapes
    /\ Constructed
    /\ NoPipeline
    /\ NoCli
    /\ other = <<>> /\ running = 0

\* calls of a closing verb of the backend among the calls of one operation
ClosingCalls(verbs) ==
    Cardinality({i \in 1..Len(verbs) : verbs[i].verb \in CloseVerbs /\ ~verbs[i].mock})

\* The effect of one adapter operation with outcome o on the adapter and on
\* the bookkeeping about it.
AdapterStep(op, arg, o) ==
    /\ config' = config
    /\ browser' = o.browser
    /\ initOk' = (initOk \/ (op = "initialize" /\ o.ok))
    /\ closedAfterInit' = IF op = "initialize" /\ o.ok THEN FALSE
                          ELSE IF op = "close" /\ initOk THEN TRUE
                          ELSE closedAfterInit
    /\ closeCalls' = IF op = "close" THEN closeCalls + 1 ELSE closeCalls
    /\ closeVerbCalls' = IF o.assigned THEN 0 ELSE closeVerbCalls + ClosingCalls(o.verbs)
    /\ last' = OpRecord(op, arg, o)

----------------------------------------------------------------------------
(* A client that calls the operations of one StagehandAutomation directly *)

\* The client drops the value an operation returns.
ClientCall(op, arg, outcomes) ==
    /\ nOps < MaxOps
    /\ \E o \in {[x EXCEPT !.value = Void] : x \in outcomes} : AdapterStep(op, arg, o)
    /\ nOps' = nOps + 1
    /\ UNCHANGED <<stagehand, analysisVars, pipelineVars, cliVars, other, running>>

ClientInitialize == ClientCall("initialize", <<>>, initialize(stagehand, browser))
ClientNavigateTo == ClientCall("navigateTo", InputUrl, navigateTo(browser, InputUrl))
ClientExtractData ==
    ClientCall("extractData", ExtractInstruction, extractData(browser, ExtractInstruction))
ClientObservePage ==
    ClientCall("observePage", ObserveInstruction, observePage(browser, ObserveInstruction))
ClientEvaluate == ClientCall("evaluate", Fn_outerHTML, evaluate(browser, Fn_outerHTML))
ClientClose == ClientCall("close", <<>>, close(browser))

NextAdapter ==
    \/ ClientInitialize
    \/ ClientNavigateTo
    \/ ClientExtractData
    \/ ClientObservePage
    \/ ClientEvaluate
    \/ ClientClose

SpecAdapter == Init /\ [][NextAdapter]_vars

----------------------------------------------------------------------------
(* analyzeToolUrl (lines 444-550), one action per await *)

\* lines 488-493: the keywords looked for in the lower-cased text
TextKeywords == {<<"d", "o", "c">>, <<"g", "u", "i", "d", "e">>, <<"s", "t", "a", "r", "t">>,
                 <<"q", "u", "i", "c", "k">>, <<"i", "n", "s", "t", "a", "l", "l">>,
                 <<"a", "p", "i">>}
\* lines 494-499: the keywords looked for in the href
HrefKeywords == {<<"d", "o", "c", "s">>, <<"g", "u", "i", "d", "e">>,
                 <<"g", "e", "t", "t", "i", "n", "g", "-", "s", "t", "a", "r", "t", "e", "d">>,
                 <<"q", "u", "i", "c", "k", "-", "s", "t", "a", "r", "t">>,
                 <<"i", "n", "s", "t", "a", "l", "l">>, <<"a", "p", "i">>}
\* line 509: 'quick start', 'getting started'
FollowPhrases == {<<"q", "u", "i", "c", "k", " ", "s", "t", "a", "r", "t">>,
                  <<"g", "e", "t", "t", "i", "n", "g", " ", "s", "t", "a", "r", "t", "e", "d">>}

\* lines 483-501: the filter predicate
IsDocLink(link) ==
    LET text == toLowerCase(link.text)
        href == link.href
    IN  \/ \E k \in TextKeywords : Includes(text, k)
        \/ \E k \in HrefKeywords : Includes(href, k)

RECURSIVE Filter(_)
Filter(links) ==
    IF links = <<>> THEN <<>>
    ELSE IF IsDocLink(Head(links)) THEN <<Head(links)>> \o Filter(Tail(links))
    ELSE Filter(Tail(links))

\* lines 481-502
DocLinksOf(ps) == IF "links" \in ps.keys THEN Filter(ps.links) ELSE <<>>

\* line 509
IsFollowed(link) ==
    LET text == toLowerCase(link.text)
    IN  \E k \in FollowPhrases : Includes(text, k)

\* The next index >= i of the for-of loop whose link passes line 509, 0 if none.
RECURSIVE NextFollowed(_, _)
NextFollowed(links, i) ==
    IF i > Len(links) THEN 0
    ELSE IF IsFollowed(links[i]) THEN i
    ELSE NextFollowed(links, i + 1)

\* Mutant: the packages of the followed page are appended as they come.
MergeDependencies_Concat(deps, found) == deps \o found

\* Mutant: the packages of the followed page take the place of the earlier ones.
MergeDependencies_FoundOnly(deps, found) == AddAll(<<>>, found)

\* [...new Set([...dependencies, ...found])] (line 523)
MergeDependencies(deps, found) == AddAll(AddAll(<<>>, deps), found)

\* lines 536-543; the timestamp is left out
Profile == [url |-> InputUrl, toolInfo |-> toolInfo, pageStructure |-> pageStructure,
            codeExamples |-> codeExamples, dependencies |-> dependencies]

\* An adapter operation awaited by analyzeToolUrl
Await(op, arg, o) ==
    /\ AdapterStep(op, arg, o)
    /\ opLog' = Append(opLog, OpRecord(op, arg, o))
    /\ verbLog' = verbLog \o o.verbs
    /\ UNCHANGED <<stagehand, nOps, pipelineVars, cliVars, other, running>>

\* control stays in the try block
Goto(next) == pc' = next /\ UNCHANGED <<pending, outcome>>

\* Mutant: the error leaves the function without passing the finally block.
Catch_SkipsFinally(error) ==
    /\ pc' = "done"
    /\ pending' = Throw(Wrap("Failed to analyze tool URL", error))
    /\ outcome' = Throw(Wrap("Failed to analyze tool URL", error))

\* Mutant: the catch block rethrows the error as it is.
Catch_Unwrapped(error) ==
    /\ pc' = "finally"
    /\ pending' = Throw(error)
    /\ UNCHANGED outcome

\* lines 544-546: the catch block wraps the error; the finally block is next
Catch(error) ==
    /\ pc' = "finally"
    /\ pending' = Throw(Wrap("Failed to analyze tool URL", error))
    /\ UNCHANGED outcome

\* line 448
AnalyzeInitialize ==
    /\ pc = "initialize"
    /\ \E o \in initialize(stagehand, browser) :
          /\ Await("initialize", <<>>, o)
          /\ IF o.ok THEN Goto("navigate") ELSE Catch(o.error)
    /\ UNCHANGED <<toolInfo, pageStructure, codeExamples, dependencies, docLinks, linkIdx, primary>>

\* line 449
AnalyzeNavigate ==
    /\ pc = "navigate"
    /\ \E o \in navigateTo(browser, InputUrl) :
          /\ Await("navigateTo", InputUrl, o)
          /\ IF o.ok THEN Goto("extract") ELSE Catch(o.error)
    /\ UNCHANGED <<toolInfo, pageStructure, codeExamples, dependencies, docLinks, linkIdx, primary>>

\* lines 452-454
AnalyzeExtract ==
    /\ pc = "extract"
    /\ \E o \in extractData(browser, ExtractInstruction) :
          /\ Await("extractData", ExtractInstruction, o)
          /\ IF o.ok THEN Goto("observe") /\ toolInfo' = o.value
                     ELSE Catch(o.error) /\ UNCHANGED toolInfo
    /\ UNCHANGED <<pageStructure, codeExamples, dependencies, docLinks, linkIdx, primary>>

\* lines 457-459
AnalyzeObserve ==
    /\ pc = "observe"
    /\ \E o \in observePage(browser, ObserveInstruction) :
          /\ Await("observePage", ObserveInstruction, o)
          /\ IF o.ok THEN Goto("evaluate") /\ pageStructure' = o.value
                     ELSE Catch(o.error) /\ UNCHANGED pageStructure
    /\ UNCHANGED <<toolInfo, codeExamples, dependencies, docLinks, linkIdx, primary>>

\* lines 462-473: the inner try absorbs a failing evaluate
PrimaryExamples(o) ==
    IF o.ok /\ o.value.type = "string" THEN extractCodeExamplesFromHtml(o.value.html)
    ELSE <<>>

\* Mutant: no inner try around the evaluation of the primary page.
AnalyzeEvaluate_NoInnerTry ==
    /\ pc = "evaluate"
    /\ \E o \in evaluate(browser, Fn_outerHTML) :
          /\ Await("evaluate", Fn_outerHTML, o)
          /\ codeExamples' = PrimaryExamples(o)
          /\ dependencies' = detectDependenciesFromCode(PrimaryExamples(o))
          /\ primary' = [codeExamples |-> codeExamples', dependencies |-> dependencies']
          /\ IF o.ok THEN Goto("follow") ELSE Catch(o.error)
    /\ docLinks' = DocLinksOf(pageStructure)
    /\ linkIdx' = 1
    /\ UNCHANGED <<toolInfo, pageStructure>>

\* lines 462-502: evaluate the primary page, then filter the links
AnalyzeEvaluate ==
    /\ pc = "evaluate"
    /\ \E o \in evaluate(browser, Fn_outerHTML) :
          /\ Await("evaluate", Fn_outerHTML, o)
          /\ codeExamples' = PrimaryExamples(o)
          /\ dependencies' = detectDependenciesFromCode(PrimaryExamples(o))
          /\ primary' = [codeExamples |-> codeExamples', dependencies |-> dependencies']
    /\ docLinks' = DocLinksOf(pageStructure)
    /\ linkIdx' = 1
    /\ Goto("follow")
    /\ UNCHANGED <<toolInfo, pageStructure>>

\* Mutant: no try around the navigation to the followed link.
AnalyzeFollow_FatalHop ==
    /\ pc = "follow"
    /\ NextFollowed(docLinks, linkIdx) # 0
    /\ LET k == NextFollowed(docLinks, linkIdx)
       IN  \E o \in navigateTo(browser, docLinks[k].href) :
              /\ Await("navigateTo", docLinks[k].href, o)
              /\ linkIdx' = k
              /\ IF o.ok THEN Goto("hopEvaluate") ELSE Catch(o.error)
    /\ UNCHANGED <<toolInfo, pageStructure, codeExamples, dependencies, docLinks, primary>>

\* lines 505-513, 530-532: the loop advances to the next link that passes line
\* 509 and navigates to it; when the navigation fails the loop goes on
AnalyzeFollow ==
    /\ pc = "follow"
    /\ NextFollowed(docLinks, linkIdx) # 0
    /\ LET k == NextFollowed(docLinks, linkIdx)
       IN  \E o \in navigateTo(browser, docLinks[k].href) :
              /\ Await("navigateTo", docLinks[k].href, o)
              /\ IF o.ok THEN linkIdx' = k /\ Goto("hopEvaluate")
                         ELSE linkIdx' = k + 1 /\ Goto("follow")
    /\ UNCHANGED <<toolInfo, pageStructure, codeExamples, dependencies, docLinks, primary>>

\* lines 516-524: what the followed page adds
HopExamples(o) ==
    IF o.ok /\ o.value.type = "string" THEN extractCodeExamplesFromHtml(o.value.html)
    ELSE <<>>

\* lines 516-529, 536-543: evaluate the followed page, merge, break, return
AnalyzeHopEvaluate ==
    /\ pc = "hopEvaluate"
    /\ \E o \in evaluate(browser, Fn_outerHTML) :
          /\ Await("evaluate", Fn_outerHTML, o)
          /\ codeExamples' = codeExamples \o HopExamples(o)
          /\ dependencies' = IF o.ok /\ o.value.type = "string"
                               THEN MergeDependencies(dependencies,
                                        detectDependenciesFromCode(HopExamples(o)))
                               ELSE dependencies
    /\ pc' = "finally"
    /\ pending' = Return([Profile EXCEPT !.codeExamples = codeExamples',
                                         !.dependencies = dependencies'])
    /\ UNCHANGED <<outcome, toolInfo, pageStructure, docLinks, linkIdx, primary>>

\* lines 505, 536-543: the loop is over, the profile is returned
AnalyzeReturn ==
    /\ pc = "follow"
    /\ NextFollowed(docLinks, linkIdx) = 0
    /\ pc' = "finally"
    /\ pending' = Return(Profile)
    /\ UNCHANGED <<stagehand, adapterVars, nOps, outcome, toolInfo, pageStructure, codeExamples,
                   dependencies, docLinks, linkIdx, opLog, verbLog, primary, pipelineVars,
                   cliVars, other, running>>

\* lines 547-549: close the adapter, then the completion reaches the caller;
\* an error leaving the finally block would take the place of the completion
AnalyzeFinally ==
    /\ pc = "finally"
    /\ \E o \in close(browser) :
          /\ Await("close", <<>>, o)
          /\ outcome' = IF o.ok THEN pending ELSE Throw(o.error)
    /\ pc' = "done"
    /\ UNCHANGED <<pending, toolInfo, pageStructure, codeExamples, dependencies, docLinks,
                   linkIdx, primary>>

Next ==
    \/ AnalyzeInitialize
    \/ AnalyzeNavigate
    \/ AnalyzeExtract
    \/ AnalyzeObserve
    \/ AnalyzeEvaluate
    \/ AnalyzeFollow
    \/ AnalyzeHopEvaluate
    \/ AnalyzeReturn
    \/ AnalyzeFinally

Spec == Init /\ [][Next]_vars

----------------------------------------------------------------------------
(* The extractor and the detector run on a markup (lines 333-410) *)

\* A code block as the pattern of line 337 reads it: <pre>, with or without a
\* class, around an optional <code>, with or without a class, around the body.
Block(preClass, hasCode, codeClass, body) ==
    [preClass |-> preClass, hasCode |-> hasCode, codeClass |-> codeClass, body |-> body]

Render(b) ==
    <<Pre(b.preClass)>> \o (IF b.hasCode THEN <<Code(b.codeClass)>> ELSE <<>>)
    \o Text(b.body)
    \o (IF b.hasCode THEN <<EndCode>> ELSE <<>>) \o <<EndPre>>

\* the blocks one after the other, each followed by a line break
RECURSIVE RenderAll(_)
RenderAll(bs) ==
    IF bs = <<>> THEN <<>> ELSE Render(Head(bs)) \o <<Tx("\n")>> \o RenderAll(Tail(bs))

\* bodies made of the pieces the five replacements of lines 358-362 look for
EntityBodies ==
    UNION {[1..n -> {"&", "lt;", "gt;", "amp;", "quot;", "#39;", "x"}] : n \in 1..MaxBody}

\* module paths written with '.', '/', '@' and a letter
PathInputs == UNION {[1..n -> {".", "/", "@", "a"}] : n \in 1..MaxPathLen}

\* import '<path>'
ImportOf(path) == <<"import", " ", "'">> \o path \o <<"'">>

\* blocks with the body "a" or " b\n", tagged language-py, lang-tsx or not at all
PlainBlocks ==
    LET bodies == {<<"a">>, <<" ", "b", "\n">>}
        preClasses == {<<>>, L_language \o <<"p", "y">>}
    IN  {Block(p, FALSE, <<>>, t) : p \in preClasses, t \in bodies}
        \cup {Block(p, TRUE, c, t) : p \in preClasses,
                                     c \in {<<>>, L_lang \o <<"t", "s", "x">>}, t \in bodies}
BlockLists == UNION {[1..n -> PlainBlocks] : n \in 0..MaxBlocks}

\* <pre><code> blocks whose body is import 'a' or a: the <pre> without a class
\* or tagged language-python, the <code> without a class or with the class
\* hljs, language-TSX, lang-jsx, language-typescript, lang-js or tsx-code
TaggedBlocks ==
    LET preClasses == {<<>>, L_language \o <<"p", "y", "t", "h", "o", "n">>}
        codeClasses == {<<>>, <<"h", "l", "j", "s">>,
                        L_language \o <<"T", "S", "X">>,
                        L_lang \o <<"j", "s", "x">>,
                        L_language \o <<"t", "y", "p", "e", "s", "c", "r", "i", "p", "t">>,
                        L_lang \o <<"j", "s">>,
                        <<"t", "s", "x">> \o L_code}
    IN  {Block(p, TRUE, c, t) : p \in preClasses, c \in codeClasses,
                                t \in {ImportOf(<<"a">>), <<"a">>}}

\* A markup is handed to extractCodeExamplesFromHtml: some blocks, or one
\* block of entity pieces, or one block holding an import statement.
InitPipeline ==
    /\ stagehand = NoStagehand
    /\ Constructed
    /\ \/ blocks \in BlockLists /\ modulePath = <<>>
       \/ blocks \in UNION {[1..n -> TaggedBlocks] : n \in 1..MaxBlocks} /\ modulePath = <<>>
       \/ blocks \in {<<Block(<<>>, FALSE, <<>>, t)>> : t \in EntityBodies} /\ modulePath = <<>>
       \/ /\ modulePath \in PathInputs
          /\ blocks = <<Block(<<>>, TRUE, <<>>, ImportOf(modulePath))>>
    /\ markup = RenderAll(blocks)
    /\ extracted = <<>>
    /\ detected = <<>>
    /\ step = "input"
    /\ NoCli
    /\ other = <<>> /\ running = 0

\* line 467: extractCodeExamplesFromHtml(htmlContent)
RunExtract ==
    /\ step = "input"
    /\ extracted' = extractCodeExamplesFromHtml(markup)
    /\ step' = "extracted"
    /\ UNCHANGED <<stagehand, adapterVars, nOps, analysisVars, blocks, modulePath, markup,
                   detected, cliVars, other, running>>

\* line 468: detectDependenciesFromCode(codeExamples)
RunDetect ==
    /\ step = "extracted"
    /\ detected' = detectDependenciesFromCode(extracted)
    /\ step' = "detected"
    /\ UNCHANGED <<stagehand, adapterVars, nOps, analysisVars, blocks, modulePath, markup,
                   extracted, cliVars, other, running>>

NextPipeline ==
    \/ RunExtract
    \/ RunDetect

SpecPipeline == InitPipeline /\ [][NextPipeline]_vars

----------------------------------------------------------------------------
(* Properties of analyzeToolUrl, checked under Spec *)

OpsCalled(op) == {i \in 1..Len(opLog) : opLog[i].op = op}
FailedOps == {i \in 1..Len(opLog) : ~opLog[i].ok}
\* Operations 1..5 of an analysis are initialize, navigateTo(url), extractData,
\* observePage and evaluate; from the sixth on they belong to the guided hop
\* or are the final close.
HopOps == {i \in 1..Len(opLog) : i > 5 /\ opLog[i].op \in {"navigateTo", "evaluate"}}

IsPrefix(p, q) == Len(p) <= Len(q) /\ SubSeq(q, 1, Len(p)) = p

\* C1: close() is called exactly once per analysis, whichever step fails or
\* succeeds, and it has returned before the profile or the error reaches the
\* caller.
InvCloseExactlyOnce ==
    /\ closeCalls <= 1
    /\ closeCalls = Cardinality(OpsCalled("close"))
    /\ (pc = "done" \/ outcome.kind # "none") =>
          /\ closeCalls = 1
          /\ opLog[Len(opLog)].op = "close"
    /\ pc # "done" => outcome.kind = "none"

WitCloseAfterFailure ==
    /\ pc = "done"
    /\ outcome.kind = "throw"
    /\ closeCalls = 1
    /\ browser.bound
    /\ \E i \in FailedOps : opLog[i].op = "observePage"

\* C2 (as claimed): navigateTo is called at most twice in one analysis.
InvAtMostTwoNavigations == Cardinality(OpsCalled("navigateTo")) <= 2

\* C3: a failure of the primary navigation or of the identity extraction
\* makes the analysis raise the wrapped error; no profile is returned, nothing
\* but close() is called afterwards, and close() has run when the error
\* reaches the caller.
InvPrimaryFailureAborts ==
    \A k \in FailedOps :
        (k <= 3 /\ opLog[k].op \in {"navigateTo", "extractData"}) =>
            /\ \A j \in (k + 1)..Len(opLog) : opLog[j].op = "close"
            /\ pending = Throw(Wrap("Failed to analyze tool URL", opLog[k].error))
            /\ outcome.kind # "return"
            /\ pc \in {"finally", "done"}
            /\ pc = "done" => outcome = pending /\ closeCalls = 1

WitPrimaryFailureAborts ==
    /\ pc = "done"
    /\ 3 \in FailedOps
    /\ opLog[3].op = "extractData"
    /\ opLog[3].verbs # <<>>
    /\ outcome.kind = "throw"

\* C4 (as claimed): once extractData has succeeded the analysis returns a
\* profile, whatever fails later.
InvNoFailureAfterExtract ==
    (pc = "done" /\ \E k \in OpsCalled("extractData") : opLog[k].ok) => outcome.kind = "return"

\* C4 (amended): once observePage has succeeded the analysis returns a
\* profile, whichever later backend call raises.
InvNoFailureAfterObserve ==
    (\E k \in OpsCalled("observePage") : opLog[k].ok) =>
        /\ pending.kind # "throw"
        /\ pc = "done" => outcome.kind = "return"

WitFailureAfterObserveAbsorbed ==
    /\ pc = "done"
    /\ outcome.kind = "return"
    /\ 5 \in FailedOps
    /\ HopOps \cap FailedOps # {}

\* C5: when the navigation or the evaluation of the guided hop raises, a
\* profile is still returned; its codeExamples start with the examples of the
\* primary page and its dependencies contain those of the primary page.
InvHopFailureKeepsPrimary ==
    (HopOps \cap FailedOps # {}) =>
        /\ pending.kind # "throw"
        /\ IsPrefix(primary.codeExamples, codeExamples)
        /\ SeqToSet(primary.dependencies) \subseteq SeqToSet(dependencies)
        /\ pc = "done" =>
              /\ outcome.kind = "return"
              /\ IsPrefix(primary.codeExamples, outcome.profile.codeExamples)
              /\ SeqToSet(primary.dependencies) \subseteq SeqToSet(outcome.profile.dependencies)

\* the first followed link could not be reached, the second one added examples
WitHopFailureKeepsPrimary ==
    /\ pc = "done"
    /\ outcome.kind = "return"
    /\ \E i \in HopOps \cap FailedOps : opLog[i].op = "navigateTo"
    /\ primary.dependencies # <<>>
    /\ Len(outcome.profile.codeExamples) > Len(primary.codeExamples)

\* C10: when the library could not be loaded, initialize() fails with the
\* library-unavailable error, the analysis fails with it, and no navigation
\* and no backend verb is attempted.
InvNothingAttemptedWithoutLibrary ==
    ~stagehand.loaded =>
        /\ verbLog = <<>>
        /\ \A i \in 1..Len(opLog) : opLog[i].op \in {"initialize", "close"}
        /\ Len(opLog) >= 1 => (~opLog[1].ok /\ opLog[1].error = E_NoLibrary)
        /\ outcome.kind # "return"
        /\ pc = "done" => outcome = Throw(Wrap("Failed to analyze tool URL", E_NoLibrary))

WitFailedWithoutLibrary ==
    /\ ~stagehand.loaded
    /\ pc = "done"
    /\ outcome.kind = "throw"

----------------------------------------------------------------------------
(* Properties of StagehandAutomation, checked under SpecAdapter *)

PageOps == {"navigateTo", "extractData", "observePage", "evaluate"}
StateError == ~last.ok /\ last.error = E_NotInitialized /\ last.verbs = <<>>

\* C6 (as claimed): until initialize() has returned normally, the four page
\* operations fail with the state error and call no backend verb.
InvStateErrorUntilInitialized == (last.op \in PageOps /\ ~initOk) => StateError

\* C7 (as claimed): after close() on an initialized adapter, the four page
\* operations fail with the state error and call no backend verb.
InvStateErrorAfterClose == (last.op \in PageOps /\ closedAfterInit) => StateError

\* C8 (as claimed): however often close() is called, the closing verb of the
\* bound handle is invoked at most once.
InvCloseVerbAtMostOnce == closeVerbCalls <= 1

\* C9 (as claimed): with the library loaded and no backend call raising,
\* initialize() returns normally and leaves a bound handle.
InvInitializeSucceedsWhenLoaded ==
    (/\ last.op = "initialize"
     /\ stagehand.loaded
     /\ \A i \in 1..Len(last.verbs) : ~last.verbs[i].raised)
        => (last.ok /\ browser.bound)

----------------------------------------------------------------------------
(* The fallback chains, checked under Spec and SpecAdapter *)

NoNavVerb(b) == \A v \in NavVerbs : ~Has(b, v)
NoCloseVerb(b) == \A v \in CloseVerbs : ~Has(b, v)
\* the first verb of the sequence `order` the handle has
FirstOf(b, order) == order[CHOOSE i \in 1..Len(order) :
                              Has(b, order[i]) /\ \A j \in 1..(i - 1) : ~Has(b, order[j])]
Raised(r) == \E i \in 1..Len(r.verbs) : r.verbs[i].raised

\* C11 (as claimed): when the session the backend handed out has none of
\* goto, navigate, act (and has a closing verb), the navigateTo(url) of the
\* analysis fails with the navigation error, and at the end close() has been
\* called and the closing verb has been called exactly once.
InvNoNavigationVerbFails ==
    (/\ Len(opLog) >= 2
     /\ opLog[2].op = "navigateTo"
     /\ browser.session \cap NavVerbs = {}
     /\ browser.session \cap CloseVerbs # {})
        => /\ ~opLog[2].ok
           /\ opLog[2].error = Wrap("Navigation failed", E_NoNavMethod)
           /\ pc = "done" => (closeCalls = 1 /\ ClosingCalls(verbLog) = 1)

\* C11 (amended): when the handle in this.browser has none of goto, navigate,
\* act after initialize(), which happens only for a session made by the
\* Browser constructor, navigateTo(url) fails with the navigation error
\* without calling the backend, the analysis fails with it, close() is the
\* only operation called afterwards, and the closing verb of the session, if
\* it has one, has been called exactly once when the error reaches the caller.
InvNoNavigationVerbFailsUnlessMocked ==
    (Len(opLog) >= 2 /\ opLog[2].op = "navigateTo" /\ NoNavVerb(browser)) =>
        /\ stagehand.Browser /\ ~stagehand.launch
        /\ ~opLog[2].ok
        /\ opLog[2].error = Wrap("Navigation failed", E_NoNavMethod)
        /\ opLog[2].verbs = <<>>
        /\ pending = Throw(Wrap("Failed to analyze tool URL", opLog[2].error))
        /\ \A j \in 3..Len(opLog) : opLog[j].op = "close"
        /\ pc = "done" =>
              /\ outcome = pending
              /\ closeCalls = 1
              /\ ClosingCalls(verbLog) = IF NoCloseVerb(browser) THEN 0 ELSE 1

WitNoNavigationVerbFails ==
    /\ pc = "done"
    /\ browser.bound
    /\ NoNavVerb(browser)
    /\ ~opLog[2].ok
    /\ ClosingCalls(verbLog) = 1
    /\ outcome.kind = "throw"

\* C12: a navigateTo call on a bound handle calls one backend verb, the first
\* the handle has of goto, navigate, act, with the URL (for act, with the
\* instruction made of it); when that verb raises the call fails with the
\* navigation error and no other verb is called.  Without any of the three
\* verbs no verb is called.
InvNavigateOneVerb ==
    (last.op = "navigateTo" /\ browser.bound) =>
        IF NoNavVerb(browser) THEN last.verbs = <<>> /\ ~last.ok
        ELSE LET v == FirstOf(browser, <<"goto", "navigate", "act">>)
             IN  /\ Len(last.verbs) = 1
                 /\ last.verbs[1].verb = v
                 /\ last.verbs[1].arg = IF v = "act" THEN <<"Navigate to ">> \o last.arg
                                                     ELSE last.arg
                 /\ last.ok = ~last.verbs[1].raised
                 /\ ~last.ok => last.error = Wrap("Navigation failed", BackendError)

\* navigate raised on a session that also has act
WitNavigateOneVerb ==
    /\ last.op = "navigateTo"
    /\ browser.bound
    /\ browser.session \cap NavVerbs = {"navigate", "act"}
    /\ Len(last.verbs) = 1
    /\ last.verbs[1].raised
    /\ ~last.ok

\* C13: the extractData of the analysis calls extract when the handle has it,
\* otherwise evaluate when the handle has it, otherwise no verb, and then it
\* returns the placeholder; it fails only when the verb it called raised, with
\* the extraction error.
InvExtractDataDegrades ==
    (Len(opLog) >= 3 /\ opLog[3].op = "extractData") =>
        LET r == opLog[3]
        IN  /\ Has(browser, "extract") =>
                  (Len(r.verbs) = 1 /\ r.verbs[1].verb = "extract"
                   /\ r.verbs[1].arg = ExtractInstruction)
            /\ (~Has(browser, "extract") /\ Has(browser, "evaluate")) =>
                  (Len(r.verbs) = 1 /\ r.verbs[1].verb = "evaluate")
            /\ (~Has(browser, "extract") /\ ~Has(browser, "evaluate")) =>
                  (r.verbs = <<>> /\ r.ok /\ toolInfo = PlaceholderExtract)
            /\ r.ok = ~Raised(r)
            /\ ~r.ok => r.error = Wrap("Data extraction failed", BackendError)

WitExtractDataPlaceholder ==
    /\ pc = "done"
    /\ outcome.kind = "return"
    /\ opLog[3].op = "extractData"
    /\ opLog[3].verbs = <<>>
    /\ outcome.profile.toolInfo = PlaceholderExtract

\* C14 (as claimed): when the handle has no observe verb and no backend call
\* raises, the observePage of the analysis returns a mapping with the keys
\* links and buttons at its top level.
InvObserveShapeWithoutVerb ==
    (/\ Len(opLog) >= 4
     /\ opLog[4].op = "observePage"
     /\ ~Has(browser, "observe")
     /\ ~Raised(opLog[4]))
        => /\ opLog[4].ok
           /\ pageStructure.type = "object"
           /\ {"links", "buttons"} \subseteq pageStructure.keys

\* C15: a close() call on a bound handle returns normally and calls at most
\* one backend verb, the first the handle has of close, exit, quit; it calls
\* none when the handle has none of them, and it returns normally when the
\* verb raises.
InvCloseOneVerb ==
    (last.op = "close" /\ browser.bound) =>
        /\ last.ok
        /\ IF NoCloseVerb(browser) THEN last.verbs = <<>>
           ELSE /\ Len(last.verbs) = 1
                /\ last.verbs[1].verb = FirstOf(browser, <<"close", "exit", "quit">>)

\* exit raised on a session that also has quit
WitCloseOneVerb ==
    /\ last.op = "close"
    /\ browser.session \cap CloseVerbs = {"exit", "quit"}
    /\ Len(last.verbs) = 1
    /\ last.verbs[1].raised
    /\ last.ok

\* The operations 1..4 of an analysis are not inside an inner try: the failure
\* of one of them is the failure of the body.
FatalFailures == {k \in FailedOps : k <= 4}

\* C16: when the closing verb raises in the finally block, the caller still
\* receives what the body produced: the profile when no step of the body
\* failed fatally, otherwise the wrapped error of the step that failed.
InvCleanupFailureKeepsOutcome ==
    (pc = "done" /\ Raised(opLog[Len(opLog)])) =>
        /\ opLog[Len(opLog)].op = "close"
        /\ outcome = pending
        /\ IF FatalFailures = {} THEN outcome = Return(Profile)
           ELSE \E k \in FatalFailures :
                   outcome = Throw(Wrap("Failed to analyze tool URL", opLog[k].error))

\* extractData failed, then the closing verb raised
WitCleanupFailureKeepsError ==
    /\ pc = "done"
    /\ Raised(opLog[Len(opLog)])
    /\ opLog[Len(opLog)].op = "close"
    /\ 3 \in FailedOps
    /\ outcome = Throw(Wrap("Failed to analyze tool URL",
                            Wrap("Data extraction failed", BackendError)))

\* C17 (as claimed): every navigation after the one to the input URL goes to
\* the first observed link whose text contains 'quick start' or 'getting
\* started'; when no link has such a text there is no second navigation.
InvHopFollowsFirstPhraseLink ==
    \A i \in OpsCalled("navigateTo") :
        i > 2 => LET k == NextFollowed(pageStructure.links, 1)
                 IN  k # 0 /\ opLog[i].arg = pageStructure.links[k].href

----------------------------------------------------------------------------
(* Properties of the extractor and the detector, checked under SpecPipeline *)

\* C18 (as claimed): no code of an extracted example contains one of the
\* sequences &lt; &gt; &amp; &quot; &#39;.
InvNoEntityInCode ==
    \A i \in 1..Len(extracted) :
        \A e \in {"lt;", "gt;", "amp;", "quot;", "#39;"} :
            ~Includes(extracted[i].code, <<"&", e>>)

\* C19: a markup made of N code blocks (<pre>, with or without a class,
\* around an optional <code>, with or without a class) gives N examples, the
\* i-th being the i-th block of the markup.
InvOneExamplePerBlock ==
    step # "input" =>
        /\ Len(extracted) = Len(blocks)
        /\ \A i \in 1..Len(blocks) :
              /\ extracted[i].code = cleanCode(blocks[i].body)
              /\ extracted[i].language = languageOf(blocks[i].preClass, blocks[i].codeClass)

WitTwoBlocksInOrder ==
    /\ step = "extracted"
    /\ Len(blocks) = 2
    /\ blocks[1].hasCode /\ ~blocks[2].hasCode
    /\ Len(extracted) = 2
    /\ extracted[1].code = <<"b">> /\ extracted[2].code = <<"a">>
    /\ extracted[1].language # extracted[2].language

\* The package a module path stands for, read off the path: nothing for a
\* path starting with '.' or '/', the text before the second '/' for a path
\* starting with '@', otherwise the text before the first '/'.
PackageOf(path) ==
    LET s1 == FindFirst(path, 1, {"/"})
        s2 == FindFirst(path, s1 + 1, {"/"})
    IN  IF path[1] \in {".", "/"} THEN <<>>
        ELSE IF s1 > Len(path) THEN path
        ELSE IF path[1] = "@" THEN SubSeq(path, 1, s2 - 1)
        ELSE SubSeq(path, 1, s1 - 1)

\* C20: for the module path of a matched import statement the detector
\* yields nothing when the path starts with '.' or '/', the first two
\* segments of a scoped path, the first segment of any other path with
\* several segments, and the path itself when it has one segment; no
\* dependency starts with '.' or '/'.
InvPackageNameOfPath ==
    (step = "detected" /\ modulePath # <<>>) =>
        /\ detected = IF PackageOf(modulePath) = <<>> THEN <<>> ELSE <<PackageOf(modulePath)>>
        /\ \A i \in 1..Len(detected) :
              detected[i] # <<>> /\ detected[i][1] \notin {".", "/"}

\* import '@a/a/a' gives @a/a
WitScopedPackage ==
    /\ step = "detected"
    /\ modulePath = <<"@", "a", "/", "a", "/", "a">>
    /\ detected = <<<<"@", "a", "/", "a">>>>

----------------------------------------------------------------------------
(* Properties of the dependencies of a profile, checked under Spec *)

NoDuplicate(s) == \A i, j \in 1..Len(s) : s[i] = s[j] => i = j

\* the statement: import 'a'
ImportsA(code) == Includes(code, <<"import", " ", "'", "a", "'">>)

\* C21: the dependencies of the profile hold each package name at most once,
\* however often it is imported within one example, across the examples of a
\* page and across the primary and the followed page.
InvDependenciesUnique ==
    /\ NoDuplicate(dependencies)
    /\ NoDuplicate(primary.dependencies)
    /\ NoDuplicate(pending.profile.dependencies)
    /\ NoDuplicate(outcome.profile.dependencies)

\* both pages hold two examples that import a, the first of them twice
WitDependenciesUnique ==
    /\ pc = "done"
    /\ outcome.kind = "return"
    /\ Len(primary.codeExamples) = 2
    /\ Len(outcome.profile.codeExamples) = 4
    /\ \A i \in 1..4 : ImportsA(outcome.profile.codeExamples[i].code)
    /\ Includes(outcome.profile.codeExamples[1].code, <<"'", "a", "/", "b", "'">>)
    /\ outcome.profile.dependencies = <<<<"a">>>>

----------------------------------------------------------------------------
(* Properties of the languages of the examples, checked under SpecPipeline *)

\* the language is literally one of javascript, typescript, jsx, tsx
IsJsLanguage(example) ==
    \/ example.language = <<"j", "a", "v", "a", "s", "c", "r", "i", "p", "t">>
    \/ example.language = <<"t", "y", "p", "e", "s", "c", "r", "i", "p", "t">>
    \/ example.language = <<"j", "s", "x">>
    \/ example.language = <<"t", "s", "x">>

Python == <<"p", "y", "t", "h", "o", "n">>

\* C22: the detector reads only the examples whose language is exactly
\* javascript, typescript, jsx or tsx; an example with another tag (python,
\* js, TSX) contributes nothing, and a page with a python block and an
\* untagged block without imports gives the languages [python, javascript]
\* and no dependency.
InvOnlyJsFamilyScanned ==
    (step = "detected" /\ modulePath = <<>>) =>
        /\ detected = IF \E i \in 1..Len(extracted) :
                             IsJsLanguage(extracted[i]) /\ ImportsA(extracted[i].code)
                        THEN <<<<"a">>>> ELSE <<>>
        /\ ( /\ Len(blocks) = 2
             /\ blocks[1].preClass = L_language \o Python /\ blocks[1].codeClass = <<>>
             /\ blocks[2].preClass = <<>> /\ blocks[2].codeClass = <<>>
             /\ ~ImportsA(blocks[2].body) )
            => /\ [i \in 1..2 |-> extracted[i].language] = <<Python, L_javascript>>
               /\ detected = <<>>

\* a python block importing a, then an untagged block without imports
WitPythonNotScanned ==
    /\ step = "detected"
    /\ Len(blocks) = 2
    /\ blocks[1].preClass = L_language \o Python /\ blocks[1].codeClass = <<>>
    /\ ImportsA(blocks[1].body)
    /\ blocks[2].preClass = <<>> /\ blocks[2].codeClass = <<>> /\ blocks[2].body = <<"a">>
    /\ [i \in 1..2 |-> extracted[i].language] = <<Python, L_javascript>>
    /\ detected = <<>>

----------------------------------------------------------------------------
(* Properties of the merge after a followed page, checked under SpecSmall *)

\* the examples a page adds: those of its markup when evaluate returned a string
ExamplesOfPage(r) ==
    IF r.ok /\ r.value.type = "string" THEN extractCodeExamplesFromHtml(r.value.html)
    ELSE <<>>

\* the evaluations of a followed page that returned a string
HopMarkups ==
    {i \in HopOps : opLog[i].op = "evaluate" /\ opLog[i].ok /\ opLog[i].value.type = "string"}

\* C28: when a link was followed and the markup of its page is a string, the
\* examples of the profile are those of the primary page followed by those
\* of the followed page, and the dependencies are, as a set, what the
\* detector finds in that sequence: the union of what it finds in each part.
InvHopAppendsAndUnions ==
    \A i \in HopMarkups :
        LET first == ExamplesOfPage(opLog[5])
            second == ExamplesOfPage(opLog[i])
        IN  /\ pending.kind = "return"
            /\ pending.profile.codeExamples = first \o second
            /\ SeqToSet(pending.profile.dependencies)
                   = SeqToSet(detectDependenciesFromCode(first \o second))
            /\ SeqToSet(pending.profile.dependencies)
                   = SeqToSet(detectDependenciesFromCode(first))
                     \cup SeqToSet(detectDependenciesFromCode(second))
            /\ pc = "done" => outcome = pending

\* the primary page imports a, the followed page @a/b as well
WitHopAppendsAndUnions ==
    /\ pc = "done"
    /\ HopMarkups # {}
    /\ opLog[5].ok /\ opLog[5].value = Str(M_Tsx)
    /\ \E i \in HopMarkups : opLog[i].value = Str(M_Mixed)
    /\ Len(outcome.profile.codeExamples) = 4
    /\ outcome.profile.dependencies = <<<<"a">>, <<"@", "a", "/", "b">>>>

----------------------------------------------------------------------------
(* Properties of initialize(), checked under SpecAdapter *)

EntryPoints == {"stagehand.launch", "new stagehand.Browser", "launch"}

\* C24 (as claimed): the entry point of the backend that initialize() uses
\* receives the configuration of the adapter: the options of the caller over
\* the defaults headless = true and timeout = 30000.
InvConfigReachesBackend ==
    \A i \in 1..Len(last.verbs) :
        last.verbs[i].verb \in EntryPoints => last.verbs[i].arg = <<config>>

\* C29 (as claimed): initialize() replaces no verb that the session returned
\* by launch() exposes; the functions it installs stand in for missing verbs
\* only.
InvMocksOnlyForMissingVerbs == browser.mock \cap browser.session = {}

----------------------------------------------------------------------------
(* The action of the main command (src/src/index.ts, lines 24-64) *)

\* URLs by host name and path segments; the last one is not a URL
Urls == {[hostname |-> <<"base", "org">>, pathParts |-> <<>>],
         [hostname |-> <<"docs", "base", "org">>, pathParts |-> <<"builderkits", "onchainkit">>],
         [hostname |-> <<"example", "com">>, pathParts |-> <<"tool">>],
         [hostname |-> <<>>, pathParts |-> <<>>]}

\* isNextJsApp (stagehand-integration.ts, lines 560-595)
isNextJsApp(pkg, entries) ==
    /\ "package.json" \in entries
    /\ pkg = "next"
    /\ entries \cap {"next.config.js", "next.config.mjs", "pages", "app"} # {}

\* bootstrapNextApp (src/unnamed/part_002, lines 16-37): where create-next-app is run
BootstrapTarget(directory, entries) ==
    LET nonHiddenFiles == entries \ {".git", "node_modules"}
    IN  IF nonHiddenFiles # {} THEN directory \o <<"nextjs-app">> ELSE directory

\* integrate.ts, lines 36-37
ToolNameOf(u) ==
    IF u.pathParts # <<>> THEN u.pathParts[Len(u.pathParts)] ELSE u.hostname[1]

\* integrate.ts, lines 832-841
KnownTools(toolName) ==
    CASE toolName \in {"onchainkit", "getting-started", "docs", "builderkits"}
           -> <<"onchainkit">>
      [] toolName = "base" -> <<"@base-org/sdk">>
      [] OTHER -> <<>>

\* The command is started in a directory with or without a package.json
\* (unreadable, without or with a dependency on next).
InitCli ==
    /\ stagehand = NoStagehand
    /\ Constructed
    /\ NoPipeline
    /\ files \in SUBSET {"package.json", "next.config.js", "next.config.mjs", "pages", "app",
                          "README.md", ".git", "node_modules"}
    /\ packageJson \in IF "package.json" \in files THEN {"unreadable", "plain", "next"}
                       ELSE {"absent"}
    /\ force \in BOOLEAN
    /\ cliUrl \in Urls
    /\ cliPc = "detect"
    /\ cliLog = <<>>
    /\ created = {}
    /\ written = {}
    /\ installed = <<>>
    /\ exitCode = -1
    /\ other = <<>> /\ running = 0

\* Mutant: --force is not looked at.
CliDetect_IgnoresForce ==
    /\ cliPc = "detect"
    /\ cliPc' = IF isNextJsApp(packageJson, files) THEN "integrate" ELSE "bootstrap"
    /\ cliLog' = Append(cliLog, [call |-> "isNextJsApp", ok |-> TRUE])
    /\ UNCHANGED <<stagehand, adapterVars, nOps, analysisVars, pipelineVars, other, running, files,
                   packageJson, force, cliUrl, created, written, installed, exitCode>>

\* lines 30-51: detection and the choice of the branch
CliDetect ==
    /\ cliPc = "detect"
    /\ cliPc' = IF isNextJsApp(packageJson, files) \/ force THEN "integrate" ELSE "bootstrap"
    /\ cliLog' = Append(cliLog, [call |-> "isNextJsApp", ok |-> TRUE])
    /\ UNCHANGED <<stagehand, adapterVars, nOps, analysisVars, pipelineVars, other, running, files,
                   packageJson, force, cliUrl, created, written, installed, exitCode>>

\* line 54: bootstrapNextApp(process.cwd()); create-next-app may fail, and the
\* catch of lines 60-63 then ends the process with status 1.  Directories are
\* paths relative to process.cwd(), which is <<>>.
CliBootstrap ==
    /\ cliPc = "bootstrap"
    /\ \E ok \in BOOLEAN :
          /\ cliLog' = Append(cliLog, [call |-> "bootstrapNextApp", ok |-> ok])
          /\ IF ok THEN /\ created' = created \cup {BootstrapTarget(<<>>, files)}
                        /\ cliPc' = "integrate"
                        /\ exitCode' = exitCode
             ELSE created' = created /\ cliPc' = "done" /\ exitCode' = 1
    /\ UNCHANGED <<stagehand, adapterVars, nOps, analysisVars, pipelineVars, other, running, files,
                   packageJson, force, cliUrl, written, installed>>

\* lines 37, 46, 55: integrateExternalTool(url, process.cwd()) up to the end
\* of createIntegration (integrate.ts, lines 23-67, 136-180), which writes to
\* path.join(directory, 'src', 'lib', 'integrations', toolName) (line 144)
CliIntegrate ==
    /\ cliPc = "integrate"
    /\ IF cliUrl.hostname = <<>>
         THEN /\ cliLog' = Append(cliLog, [call |-> "integrateExternalTool", ok |-> FALSE])
              /\ written' = written
              /\ cliPc' = "done" /\ exitCode' = 1
         ELSE \E ok \in BOOLEAN :
                /\ cliLog' = cliLog \o <<[call |-> "integrateExternalTool", ok |-> ok],
                                         [call |-> "createIntegration", ok |-> ok]>>
                /\ IF ok THEN /\ written' = written \cup {<<"src", "lib", "integrations",
                                                            ToolNameOf(cliUrl)>>}
                              /\ cliPc' = "install"
                              /\ exitCode' = exitCode
                   ELSE written' = written /\ cliPc' = "done" /\ exitCode' = 1
    /\ UNCHANGED <<stagehand, adapterVars, nOps, analysisVars, pipelineVars, other, running, files,
                   packageJson, force, cliUrl, created, installed>>

\* integrate.ts, lines 70, 826-866: installDependencies, whose errors are
\* swallowed; then the action ends
CliInstall ==
    /\ cliPc = "install"
    /\ \E ok \in BOOLEAN :
          /\ cliLog' = Append(cliLog, [call |-> "installDependencies", ok |-> ok])
          /\ installed' = IF ok THEN KnownTools(ToolNameOf(cliUrl)) ELSE <<>>
    /\ cliPc' = "done"
    /\ exitCode' = 0
    /\ UNCHANGED <<stagehand, adapterVars, nOps, analysisVars, pipelineVars, other, running, files,
                   packageJson, force, cliUrl, created, written>>

NextCli ==
    \/ CliDetect
    \/ CliBootstrap
    \/ CliIntegrate
    \/ CliInstall

SpecCli == InitCli /\ [][NextCli]_vars

----------------------------------------------------------------------------
(* Properties of the command, checked under SpecCli *)

CallsOf(name) == {i \in 1..Len(cliLog) : cliLog[i].call = name}

\* C25 (as claimed): in a run of the command, analyzeToolUrl has run before
\* integration files are generated, and the packages installed are those of
\* the profile it returned.
InvAnalysisBeforeFiles ==
    \A i \in CallsOf("createIntegration") : \E j \in CallsOf("analyzeToolUrl") : j < i

\* C26: bootstrapNextApp is run exactly when no Next.js app is detected and
\* --force is not set; integrateExternalTool is run once in each of the three
\* branches, after the bootstrap when there is one, and not at all when the
\* bootstrap fails: the process then ends with status 1.
InvBootstrapIffNeeded ==
    LET needed == ~isNextJsApp(packageJson, files) /\ ~force
        boots == CallsOf("bootstrapNextApp")
        runs == CallsOf("integrateExternalTool")
        failed == \E b \in boots : ~cliLog[b].ok
    IN  /\ Cardinality(boots) <= 1 /\ Cardinality(runs) <= 1
        /\ boots # {} => needed
        /\ (needed /\ cliPc \in {"integrate", "install", "done"}) => boots # {}
        /\ \A b \in boots : \A r \in runs : b < r
        /\ failed => runs = {} /\ cliPc = "done" /\ exitCode = 1
        /\ (~failed /\ cliPc \in {"install", "done"}) => Cardinality(runs) = 1
        /\ exitCode = 0 => \A r \in runs : cliLog[r].ok

\* no app detected, no --force, and create-next-app fails
WitBootstrapFails ==
    /\ cliPc = "done"
    /\ exitCode = 1
    /\ packageJson = "plain"
    /\ ~force
    /\ cliLog = <<[call |-> "isNextJsApp", ok |-> TRUE], [call |-> "bootstrapNextApp", ok |-> FALSE]>>

\* C30 (as claimed): when the command has bootstrapped an app, the
\* integration files are written inside the directory the app was created
\* in, also when that directory is the subdirectory nextjs-app.
InvIntegrationInsideApp ==
    \A d \in created : \A w \in written : IsPrefix(d, w)

----------------------------------------------------------------------------
(* Two analyzeToolUrl calls in one process (lines 444-550).  One call runs  *)
(* at a time and gives way to the other at an await; the module-level      *)
(* `stagehand` is the only state both calls reach.                         *)

\* The adapter (line 445) and the locals (lines 449-452, 477, 505) of the
\* running call.
ThisCall ==
    [config |-> config, browser |-> browser, initOk |-> initOk,
     closedAfterInit |-> closedAfterInit, closeCalls |-> closeCalls,
     closeVerbCalls |-> closeVerbCalls, last |-> last, pc |-> pc, toolInfo |-> toolInfo,
     pageStructure |-> pageStructure, codeExamples |-> codeExamples,
     dependencies |-> dependencies, docLinks |-> docLinks, linkIdx |-> linkIdx,
     pending |-> pending, outcome |-> outcome, opLog |-> opLog, verbLog |-> verbLog,
     primary |-> primary]

\* A small backend: launch() returns a session of its own to each call, with
\* all the verbs the analysis uses or with evaluate and close only, and its
\* observe reports no link or the link "Quick Start".
SmallBackend ==
    /\ browser.bound =>
          browser.session \in {{"goto", "extract", "observe", "evaluate", "close"},
                               {"evaluate", "close"}}
    /\ pageStructure.links \in
          {<<>>, MockLinks,
           <<Link(<<"Q", "u", "i", "c", "k", " ", "S", "t", "a", "r", "t">>,
                  <<"/", "q", "u", "i", "c", "k">>)>>}

\* one call on the small backend
InitSmall ==
    /\ stagehand = [loaded |-> TRUE, launch |-> TRUE, Browser |-> FALSE]
    /\ Constructed
    /\ NoPipeline
    /\ NoCli
    /\ other = <<>>
    /\ running = 0

\* Both calls have constructed their adapter and reached the try block.
InitPair ==
    /\ stagehand = [loaded |-> TRUE, launch |-> TRUE, Browser |-> FALSE]
    /\ Constructed
    /\ NoPipeline
    /\ NoCli
    /\ other = ThisCall
    /\ running = 1

\* the running call takes a step, up to its next await
RunStep(A) == A /\ SmallBackend'

\* Mutant: the session handle is kept in one place for both calls.
Yield_SharedBrowser ==
    /\ other.pc # "done"
    /\ config' = other.config
    /\ browser' = browser
    /\ initOk' = other.initOk
    /\ closedAfterInit' = other.closedAfterInit
    /\ closeCalls' = other.closeCalls
    /\ closeVerbCalls' = other.closeVerbCalls
    /\ last' = other.last
    /\ pc' = other.pc
    /\ toolInfo' = other.toolInfo
    /\ pageStructure' = other.pageStructure
    /\ codeExamples' = other.codeExamples
    /\ dependencies' = other.dependencies
    /\ docLinks' = other.docLinks
    /\ linkIdx' = other.linkIdx
    /\ pending' = other.pending
    /\ outcome' = other.outcome
    /\ opLog' = other.opLog
    /\ verbLog' = other.verbLog
    /\ primary' = other.primary
    /\ other' = ThisCall
    /\ running' = 3 - running
    /\ UNCHANGED <<stagehand, nOps, pipelineVars, cliVars>>

\* At an await the running call is suspended and the other call resumes with
\* its own adapter and locals.
Yield ==
    /\ other.pc # "done"
    /\ config' = other.config
    /\ browser' = other.browser
    /\ initOk' = other.initOk
    /\ closedAfterInit' = other.closedAfterInit
    /\ closeCalls' = other.closeCalls
    /\ closeVerbCalls' = other.closeVerbCalls
    /\ last' = other.last
    /\ pc' = other.pc
    /\ toolInfo' = other.toolInfo
    /\ pageStructure' = other.pageStructure
    /\ codeExamples' = other.codeExamples
    /\ dependencies' = other.dependencies
    /\ docLinks' = other.docLinks
    /\ linkIdx' = other.linkIdx
    /\ pending' = other.pending
    /\ outcome' = other.outcome
    /\ opLog' = other.opLog
    /\ verbLog' = other.verbLog
    /\ primary' = other.primary
    /\ other' = ThisCall
    /\ running' = 3 - running
    /\ UNCHANGED <<stagehand, nOps, pipelineVars, cliVars>>

NextSmall ==
    \/ RunStep(AnalyzeInitialize)
    \/ RunStep(AnalyzeNavigate)
    \/ RunStep(AnalyzeExtract)
    \/ RunStep(AnalyzeObserve)
    \/ RunStep(AnalyzeEvaluate)
    \/ RunStep(AnalyzeFollow)
    \/ RunStep(AnalyzeHopEvaluate)
    \/ RunStep(AnalyzeReturn)
    \/ RunStep(AnalyzeFinally)

\* analyzeToolUrl on the small backend
SpecSmall == InitSmall /\ [][NextSmall]_vars

NextPair ==
    \/ NextSmall
    \/ Yield

SpecPair == InitPair /\ [][NextPair]_vars

----------------------------------------------------------------------------
(* Properties of two concurrent calls, checked under SpecPair *)

RECURSIVE VerbsOf(_)
VerbsOf(log) == IF log = <<>> THEN <<>> ELSE Head(log).verbs \o VerbsOf(Tail(log))

\* What a call holds is what its own operations gave it: its verb calls are
\* those of its operations, made on verbs of its own session, and its profile
\* is made of the values its own operations returned.
OwnResults(c) ==
    LET hops == {i \in 6..Len(c.opLog) : c.opLog[i].op = "evaluate"}
        p == c.pending.profile
    IN  /\ c.verbLog = VerbsOf(c.opLog)
        /\ c.browser.bound =>
              \A i \in 1..Len(c.verbLog) :
                  LET v == c.verbLog[i]
                  IN  v.verb \notin EntryPoints =>
                          /\ v.verb \in c.browser.session \cup c.browser.mock
                          /\ v.mock = (v.verb \in c.browser.mock)
        /\ c.pending.kind = "return" =>
              /\ p.toolInfo = c.opLog[3].value
              /\ p.pageStructure = c.opLog[4].value
              /\ p.codeExamples =
                     ExamplesOfPage(c.opLog[5])
                     \o (IF hops = {} THEN <<>>
                         ELSE ExamplesOfPage(c.opLog[CHOOSE i \in hops : TRUE]))
              /\ SeqToSet(p.dependencies)
                     = SeqToSet(detectDependenciesFromCode(p.codeExamples))
        /\ c.pc = "done" => c.outcome = c.pending /\ c.closeCalls = 1

\* C23: two analyzeToolUrl calls interleaved at every await do not affect one
\* another: each works on its own adapter and its own session, and the
\* profile and the verb calls of each are those its own operations produce,
\* as in a run of its own.
InvCallsIndependent == running # 0 => OwnResults(ThisCall) /\ OwnResults(other)

\* both calls are in the middle of their analysis, on different sessions
WitCallsInterleaved ==
    /\ running = 2
    /\ pc = "hopEvaluate" /\ Len(opLog) = 6
    /\ other.pc = "evaluate" /\ Len(other.opLog) = 4
    /\ browser.session # other.browser.session
    /\ toolInfo # other.toolInfo

====
